---- MODULE Spec2Model ----
(***************************************************************************)
(* Task mutation pipeline of advanced-todo-fastapi: the MCP tools          *)
(* (add/update/complete/delete/view) with their publish-then-fallback      *)
(* paths, the recurring-task consumer, and the notification service.       *)
(*                                                                         *)
(* Conventions:                                                            *)
(*   - Python None is None ("None") for strings, NoDate (<<>>) for         *)
(*     datetimes and date strings, NoId (0) for ids.                       *)
(*   - a datetime is <<year, month, day>>; an ISO-8601 date string is      *)
(*     <<year, month, day, "Z">>; a string that is no date is <<"bad">>.   *)
(*   - datetime columns accept ISO strings and return datetimes            *)
(*     (PostgreSQL backend).                                               *)
(***************************************************************************)
EXTENDS Integers, Sequences, FiniteSets, TLC

VARIABLES
    tasks,           \* task table: id -> row
    next_id,         \* next primary key of the task table
    bus,             \* topic task-events: the events accepted by the pub/sub component
    reminders,       \* topic reminders: the events accepted by the pub/sub component
    dapr_available,  \* DAPR_AVAILABLE of the process
    task_updates,    \* topic task-updates: the audit events of list_tasks
    now,             \* datetime.utcnow()
    last,            \* the last tool call: request, effects, response
    hist,            \* history: intent and projection provenance
    notifications,   \* notification table: id -> row
    next_notif_id,   \* next primary key of the notification table
    nlast,           \* the last notification-service call
    workers,         \* the tool calls that run their fallback at the same time
    start_store,     \* the task table when the first of them read it
    retriers,        \* the workers that run retry_failed_notifications at the same time
    retries,         \* per notification, the retries all workers performed on it
    api_sent,        \* the notifications the API-side notification service sent
    active_connections,  \* WebSocketHandler.active_connections
    user_connections,    \* WebSocketHandler.user_connections
    inbox,           \* per connection, the messages sent to it
    closed,          \* the connections whose socket is closed
    registered       \* per connection, the user it connected as

taskVars == <<tasks, next_id, bus, reminders, dapr_available, task_updates, now, last, hist>>
notifVars == <<notifications, next_notif_id, nlast>>
\* the state of the concurrent parts, which no sequential call touches
concVars == <<workers, start_store>>
retryVars == <<retriers, retries>>
apiVars == <<api_sent>>
wsVars == <<active_connections, user_connections, inbox, closed, registered>>
otherVars == <<concVars, retryVars, apiVars, wsVars>>
vars == <<tasks, next_id, bus, reminders, dapr_available, task_updates, now, last, hist,
          notifications, next_notif_id, nlast, otherVars>>

---------------------------------------------------------------------------
(* Bounds *)
MaxTasks == 3
MaxAdds == 2
MaxBus == 1
MaxReminders == 1
MaxDeliveries == 2
MaxNotifs == 2
MaxFailures == 3

---------------------------------------------------------------------------
(* Values *)
None == "None"
NoDate == <<>>
NoId == 0

Falsy(s) == s \in {None, ""}

\* a value that is not a str, written as its repr in angle brackets
NonStrings == {"<42>"}

\* the clock of a run, at day granularity: the Friday before the due date of
\* the requests and a day after it
NowValues == {<<2026, 1, 30>>, <<2026, 2, 10>>}

\* str.strip() on the titles and descriptions used here
Strip(s) ==
    CASE s = " Walk " -> "Walk"
      [] s = " "      -> ""
      [] OTHER        -> s

---------------------------------------------------------------------------
(* Calendar *)
IsLeap(y) == (y % 4 = 0 /\ y % 100 # 0) \/ y % 400 = 0

\* calendar.monthrange(y, m)[1]
DaysInMonth(y, m) ==
    IF m = 2 THEN (IF IsLeap(y) THEN 29 ELSE 28)
    ELSE IF m \in {4, 6, 9, 11} THEN 30 ELSE 31

\* dt + timedelta(days=1): a datetime is <<year, month, day>>, with the hour
\* as a fourth component where the time of day matters; the time is kept
AddOneDay(dt) ==
    IF dt[3] < DaysInMonth(dt[1], dt[2]) THEN [dt EXCEPT ![3] = @ + 1]
    ELSE IF dt[2] < 12 THEN [dt EXCEPT ![2] = @ + 1, ![3] = 1]
    ELSE [dt EXCEPT ![1] = @ + 1, ![2] = 1, ![3] = 1]

RECURSIVE AddDays(_, _)
\* dt + timedelta(days=n)
AddDays(dt, n) == IF n = 0 THEN dt ELSE AddDays(AddOneDay(dt), n - 1)

MonthOffset(m) == <<0, 3, 2, 5, 0, 3, 5, 1, 4, 6, 2, 4>>[m]

\* datetime.weekday(): Monday = 0 .. Sunday = 6
Weekday(dt) ==
    LET y == IF dt[2] < 3 THEN dt[1] - 1 ELSE dt[1]
        sun0 == (y + (y \div 4) - (y \div 100) + (y \div 400)
                 + MonthOffset(dt[2]) + dt[3]) % 7
    IN (sun0 + 6) % 7

\* datetime.fromisoformat(s.replace('Z', '+00:00')); <<>> stands for ValueError
IsIsoDate(s) == Len(s) = 4
ParseIso(s) == <<s[1], s[2], s[3]>>
\* datetime.isoformat() of a stored value
IsoFormat(dt) == IF dt = NoDate THEN NoDate ELSE <<dt[1], dt[2], dt[3], "T">>

---------------------------------------------------------------------------
(* Recurrence *)
RECURSIVE SkipWeekend(_)
\* a loop that skips Sunday only
SkipSundayOnly(dt) == IF Weekday(dt) >= 6 THEN AddOneDay(dt) ELSE dt

\* while next_date.weekday() >= 5: next_date += timedelta(days=1)
SkipWeekend(dt) == IF Weekday(dt) >= 5 THEN SkipWeekend(AddOneDay(dt)) ELSE dt

\* rules that contain the substring "every_2_days" / "every_weekday"
ContainsEvery2Days(rule) == rule \in {"every_2_days"}
ContainsEveryWeekday(rule) == rule \in {"every_weekday"}

\* a monthly branch that keeps the day without the clamp
NextMonthlyUnclamped(last_completion) ==
    IF last_completion[2] + 1 > 12
    THEN [last_completion EXCEPT ![1] = @ + 1, ![2] = 1]
    ELSE [last_completion EXCEPT ![2] = @ + 1]

\* the monthly branch: last_completion.replace(year, month, day)
NextMonthly(last_completion) ==
    LET next_month == IF last_completion[2] + 1 > 12 THEN 1 ELSE last_completion[2] + 1
        next_year == IF last_completion[2] + 1 > 12 THEN last_completion[1] + 1
                     ELSE last_completion[1]
        max_day == DaysInMonth(next_year, next_month)
        next_day == IF last_completion[3] < max_day THEN last_completion[3] ELSE max_day
    IN [last_completion EXCEPT ![1] = next_year, ![2] = next_month, ![3] = next_day]

calculate_next_occurrence(recurrence, recurrence_rule, last_completion) ==
    IF Falsy(recurrence) THEN NoDate
    ELSE IF recurrence = "daily" THEN AddDays(last_completion, 1)
    ELSE IF recurrence = "weekly" THEN AddDays(last_completion, 7)
    ELSE IF recurrence = "monthly" THEN NextMonthly(last_completion)
    ELSE IF recurrence = "custom" /\ ~Falsy(recurrence_rule) THEN
        IF ContainsEvery2Days(recurrence_rule) THEN AddDays(last_completion, 2)
        ELSE IF ContainsEveryWeekday(recurrence_rule) THEN SkipWeekend(AddOneDay(last_completion))
        ELSE NoDate
    ELSE NoDate

---------------------------------------------------------------------------
(* Tool results: MCPToolError and create_success_response *)
MCPToolError(code, message, details) ==
    [success |-> FALSE, code |-> code, message |-> message,
     details |-> details, data |-> <<>>]

create_success_response(data, message) ==
    [success |-> TRUE, code |-> "OK", message |-> message,
     details |-> <<>>, data |-> data]

NoDetails == <<>>

\* the task lookup: select(Task).where(Task.id == task_id).first()
Exists(store, task_id) == task_id \in DOMAIN store

NotFoundError(task_id) ==
    MCPToolError("NOT_FOUND", <<"Task ", task_id, " not found">>, [task_id |-> task_id])

\* a check that only looks for a missing user_id
UserIdMissing(user_id) == user_id = None

\* BaseMCPTool.validate_user_id: TRUE when the call is rejected
\* (not user_id or not isinstance(user_id, str))
InvalidUserId(user_id) == Falsy(user_id) \/ user_id \in NonStrings

UnauthorizedError ==
    MCPToolError("UNAUTHORIZED", <<"Invalid or missing user_id">>, [field |-> "user_id"])

\* BaseMCPTool.validate_ownership: TRUE when the check raises
OwnershipFails(resource_user_id, requesting_user_id) ==
    resource_user_id # requesting_user_id

OwnershipError == MCPToolError("NOT_FOUND", <<"Resource not found">>, NoDetails)

ValidationError(message, field) ==
    MCPToolError("VALIDATION_ERROR", <<message>>, [field |-> field])

\* len(tag) of the tags used here
TagLen(tag) ==
    CASE tag = "work" -> 4
      [] tag = "a-tag-of-twenty-one-c" -> 21
      [] OTHER -> 1

\* the tag checks shared by add_task and update_task: TRUE when they raise
NoTags == <<None>>
TagsInvalid(tags) ==
    /\ tags \notin {NoTags, <<>>}
    /\ \/ Len(tags) > 10
       \/ \E i \in 1..Len(tags) : TagLen(tags[i]) > 20

TagsError(tags) ==
    IF Len(tags) > 10 THEN ValidationError("Maximum 10 tags per task allowed", "tags")
    ELSE ValidationError("Each tag must be a string of max 20 characters", "tags")

PriorityError == ValidationError("Priority must be one of: high, medium, low", "priority")

---------------------------------------------------------------------------
(* Event publishing: DaprEventPublisher.publish_event *)
\* A topic after a call of publish_event that did not raise: in development
\* mode (Dapr missing) the event is only logged.
Published(topic, event_type, data) ==
    IF dapr_available
    THEN Append(topic, [event_id |-> <<"uuid", Len(bus) + Len(reminders)
                                               + Len(task_updates) + 1>>,
                        type |-> event_type, source |-> "todo-chat-api", data |-> data])
    ELSE topic

\* the outcomes of publish_event: it returns (ok), or raises, which it can do
\* only when Dapr is used
PublishOutcome(ok) == ok \/ dapr_available

\* the record of a tool call kept for the properties: b and r are the two
\* topics after the call
Call(op, user_id, task_id, req, intent_writes, b, r, wrote, resp) ==
    [op |-> op, user_id |-> user_id, task_id |-> task_id, req |-> req,
     intent_writes |-> intent_writes,
     pre_exists |-> Exists(tasks, task_id),
     pre_owner |-> IF Exists(tasks, task_id) THEN tasks[task_id].user_id ELSE None,
     pre_completed |-> IF Exists(tasks, task_id) THEN tasks[task_id].completed ELSE FALSE,
     pubs |-> Len(b) - Len(bus),
     reminders |-> Len(r) - Len(reminders),
     wrote |-> wrote,
     resp |-> resp]

\* history of the task events published by this call: whether the target task
\* was already completed when the event was published
EvPre(b, task_id) ==
    hist.ev_pre_completed \o
        [i \in 1..(Len(b) - Len(bus)) |->
            IF Exists(tasks, task_id) THEN tasks[task_id].completed ELSE FALSE]

---------------------------------------------------------------------------
(* The task table *)
\* a Task row as the store returns it after commit and refresh
TaskRow(id, user_id, title, description, completed, created_at, priority, due_date, tags, recurrence, recurrence_rule) ==
    [id |-> id, user_id |-> user_id, title |-> title, description |-> description,
     completed |-> completed, created_at |-> created_at, updated_at |-> now,
     priority |-> priority, due_date |-> due_date, tags |-> tags,
     recurrence |-> recurrence, recurrence_rule |-> recurrence_rule,
     next_occurrence |-> NoDate]

\* an ISO string written to a datetime column
StoreDate(s) == IF s = NoDate THEN NoDate ELSE ParseIso(s)

\* Task.tags_serialized
tags_serialized(tags) == tags

\* the data of the fallback responses of add, update and complete
TaskData(row) ==
    [id |-> row.id, user_id |-> row.user_id, title |-> row.title,
     description |-> row.description, completed |-> row.completed,
     created_at |-> IsoFormat(row.created_at), updated_at |-> IsoFormat(row.updated_at),
     priority |-> row.priority, due_date |-> IsoFormat(row.due_date),
     tags |-> tags_serialized(row.tags), recurrence |-> row.recurrence,
     recurrence_rule |-> row.recurrence_rule,
     next_occurrence |-> IsoFormat(row.next_occurrence)]

Put(store, row) == [i \in DOMAIN store \cup {row.id} |-> IF i = row.id THEN row ELSE store[i]]
Remove(store, id) == [i \in DOMAIN store \ {id} |-> store[i]]

---------------------------------------------------------------------------
(* add_task *)
Users == {"A", "B"}
DueJan31 == <<2026, 1, 31, "Z">>

AddRequest(user_id, title, priority, due_date, recurrence, recurrence_rule) ==
    [user_id |-> user_id, title |-> title, description |-> None, priority |-> priority,
     due_date |-> due_date, tags |-> <<"work">>, recurrence |-> recurrence,
     recurrence_rule |-> recurrence_rule]

AddRequests ==
    { AddRequest("A", "Pay rent", "medium", DueJan31, "monthly", None),
      AddRequest("B", " Walk ", "high", NoDate, None, None),
      AddRequest("A", " ", "medium", NoDate, None, None),
      AddRequest("", "Pay rent", "medium", NoDate, None, None) }

AddTitleInvalid(title) == Falsy(title) \/ Strip(title) = ""

AddRejected(req) ==
    \/ InvalidUserId(req.user_id)
    \/ AddTitleInvalid(req.title)
    \/ req.priority \notin {"high", "medium", "low"}
    \/ TagsInvalid(req.tags)

AddRejection(req) ==
    IF InvalidUserId(req.user_id) THEN UnauthorizedError
    ELSE IF AddTitleInvalid(req.title) THEN ValidationError("Task title cannot be empty", "title")
    ELSE IF req.priority \notin {"high", "medium", "low"} THEN PriorityError
    ELSE TagsError(req.tags)

\* tags or []
AddTags(req) == IF req.tags = NoTags THEN <<>> ELSE req.tags

AddDescription(req) == IF Falsy(req.description) THEN req.description ELSE Strip(req.description)

\* task_data of the task.created event
AddTaskData(req) ==
    [user_id |-> req.user_id, title |-> Strip(req.title), description |-> AddDescription(req),
     completed |-> FALSE, created_at |-> IsoFormat(now), updated_at |-> IsoFormat(now),
     priority |-> req.priority, due_date |-> req.due_date, tags |-> AddTags(req),
     recurrence |-> req.recurrence, recurrence_rule |-> req.recurrence_rule,
     next_occurrence |-> NoDate]

AddReminderData(req) ==
    [task_id |-> NoId, user_id |-> req.user_id, due_date |-> req.due_date,
     title |-> Strip(req.title)]

\* topic task-events after the try block
AddBus(req, ok1) ==
    IF ok1 THEN Published(bus, "task.created", AddTaskData(req)) ELSE bus

\* topic reminders after the try block: the reminder is published after
\* task.created, when a due date is set
AddReminders(req, ok1, ok2) ==
    IF ok1 /\ req.due_date # NoDate /\ ok2
    THEN Published(reminders, "task.due_scheduled", AddReminderData(req))
    ELSE reminders

\* the except branch runs when either publish raised
AddFallsBack(req, ok1, ok2) == ~ok1 \/ (req.due_date # NoDate /\ ~ok2)

AddRow(req) ==
    TaskRow(next_id, req.user_id, Strip(req.title), AddDescription(req), FALSE, now,
            req.priority, StoreDate(req.due_date), AddTags(req), req.recurrence,
            req.recurrence_rule)

AddTask(req, retry, ok1, ok2) ==
    /\ PublishOutcome(ok1) /\ PublishOutcome(ok2)
    /\ retry => (last.op = "add_task" /\ last.req = req)
    /\ LET prior == IF retry THEN last.intent_writes ELSE 0 IN
       IF AddRejected(req)
       THEN /\ last' = Call("add_task", req.user_id, NoId, req, prior, bus, reminders, FALSE,
                            AddRejection(req))
            /\ UNCHANGED <<tasks, next_id, bus, reminders, hist>>
       ELSE LET b == AddBus(req, ok1)
                r == AddReminders(req, ok1, ok2)
                fb == AddFallsBack(req, ok1, ok2)
                row == AddRow(req)
            IN /\ Len(b) <= MaxBus /\ Len(r) <= MaxReminders
               /\ fb => next_id <= MaxAdds
               /\ bus' = b
               /\ reminders' = r
               /\ tasks' = IF fb THEN Put(tasks, row) ELSE tasks
               /\ next_id' = IF fb THEN next_id + 1 ELSE next_id
               /\ hist' = [hist EXCEPT !.ev_pre_completed = EvPre(b, NoId)]
               /\ last' = Call("add_task", req.user_id, NoId, req,
                               prior + (IF fb THEN 1 ELSE 0), b, r, fb,
                               IF fb
                               THEN create_success_response(TaskData(row),
                                        <<"Task '", req.title, "' created successfully">>)
                               ELSE create_success_response(
                                        [id |-> NoId] @@ AddTaskData(req),
                                        <<"Task '", req.title, "' creation requested">>))
    /\ UNCHANGED <<dapr_available, task_updates, now, notifVars, otherVars>>

---------------------------------------------------------------------------
(* update_task *)
TaskIds == 1..MaxTasks

UpdateRequest(user_id, task_id, title, priority, recurrence) ==
    [user_id |-> user_id, task_id |-> task_id, title |-> title, description |-> None,
     priority |-> priority, due_date |-> NoDate, tags |-> NoTags,
     recurrence |-> recurrence, recurrence_rule |-> None]

UpdateRequests ==
    { UpdateRequest(u, i, None, "high", None) : u \in {"A"}, i \in TaskIds }
    \cup { UpdateRequest("A", 1, None, None, None) }

\* any([title, description is not None, priority, due_date, tags, recurrence, recurrence_rule])
UpdateHasField(req) ==
    \/ ~Falsy(req.title)
    \/ req.description # None
    \/ ~Falsy(req.priority)
    \/ req.due_date # NoDate
    \/ req.tags \notin {NoTags, <<>>}
    \/ ~Falsy(req.recurrence)
    \/ ~Falsy(req.recurrence_rule)

UpdatePriorityInvalid(req) ==
    ~Falsy(req.priority) /\ req.priority \notin {"high", "medium", "low"}

UpdateRejected(req) ==
    \/ InvalidUserId(req.user_id)
    \/ ~UpdateHasField(req)
    \/ UpdatePriorityInvalid(req)
    \/ TagsInvalid(req.tags)

UpdateRejection(req) ==
    IF InvalidUserId(req.user_id) THEN UnauthorizedError
    ELSE IF ~UpdateHasField(req)
         THEN MCPToolError("VALIDATION_ERROR",
                           <<"At least one field must be provided for update">>,
                           [task_id |-> req.task_id])
    ELSE IF UpdatePriorityInvalid(req) THEN PriorityError
    ELSE TagsError(req.tags)

\* update_data of the task.updated event, also the data of the bus-path response
UpdateData(req) ==
    [id |-> req.task_id, user_id |-> req.user_id, title |-> req.title,
     description |-> req.description, priority |-> req.priority,
     due_date |-> req.due_date, tags |-> req.tags, recurrence |-> req.recurrence,
     recurrence_rule |-> req.recurrence_rule]

\* the assignments without their "is not None" conditions
UpdateRowUnconditional(row, req) ==
    [row EXCEPT
        !.title = req.title,
        !.description = req.description,
        !.priority = req.priority,
        !.due_date = StoreDate(req.due_date),
        !.tags = req.tags,
        !.recurrence = req.recurrence,
        !.recurrence_rule = req.recurrence_rule,
        !.updated_at = now]

\* the row after the fallback assignments: every field that is not None is set
UpdateRow(row, req) ==
    [row EXCEPT
        !.title = IF req.title # None THEN req.title ELSE @,
        !.description = IF req.description # None THEN req.description ELSE @,
        !.priority = IF req.priority # None THEN req.priority ELSE @,
        !.due_date = IF req.due_date # NoDate THEN StoreDate(req.due_date) ELSE @,
        !.tags = IF req.tags # NoTags THEN req.tags ELSE @,
        !.recurrence = IF req.recurrence # None THEN req.recurrence ELSE @,
        !.recurrence_rule = IF req.recurrence_rule # None THEN req.recurrence_rule ELSE @,
        !.updated_at = now]

\* the fallback of update, complete and delete: lookup, then the ownership check
FallbackError(store, user_id, task_id) ==
    IF ~Exists(store, task_id) THEN NotFoundError(task_id) ELSE OwnershipError

FallbackFails(store, user_id, task_id) ==
    \/ ~Exists(store, task_id)
    \/ OwnershipFails(store[task_id].user_id, user_id)

UpdateTask(req, ok) ==
    /\ PublishOutcome(ok)
    /\ IF UpdateRejected(req)
       THEN /\ last' = Call("update_task", req.user_id, req.task_id, req, 0, bus, reminders,
                            FALSE, UpdateRejection(req))
            /\ UNCHANGED <<tasks, bus, hist>>
       ELSE IF ok
       THEN LET b == Published(bus, "task.updated", UpdateData(req))
            IN /\ Len(b) <= MaxBus
               /\ bus' = b
               /\ hist' = [hist EXCEPT !.ev_pre_completed = EvPre(b, req.task_id)]
               /\ last' = Call("update_task", req.user_id, req.task_id, req, 0, b, reminders,
                               FALSE,
                               create_success_response(UpdateData(req),
                                   <<"Task ", req.task_id, " update requested">>))
               /\ UNCHANGED tasks
       ELSE IF FallbackFails(tasks, req.user_id, req.task_id)
       THEN /\ last' = Call("update_task", req.user_id, req.task_id, req, 0, bus, reminders,
                            FALSE, FallbackError(tasks, req.user_id, req.task_id))
            /\ UNCHANGED <<tasks, bus, hist>>
       ELSE LET row == UpdateRow(tasks[req.task_id], req)
            IN /\ tasks' = Put(tasks, row)
               /\ last' = Call("update_task", req.user_id, req.task_id, req, 0, bus,
                               reminders, TRUE,
                               create_success_response(TaskData(row),
                                   <<"Task '", row.title, "' updated successfully">>))
               /\ UNCHANGED <<bus, hist>>
    /\ UNCHANGED <<next_id, reminders, dapr_available, task_updates, now, notifVars, otherVars>>

---------------------------------------------------------------------------
(* complete_task *)
CompletionData(user_id, task_id) == [id |-> task_id, user_id |-> user_id]

CompleteRow(row) == [row EXCEPT !.completed = TRUE, !.updated_at = now]

CompleteTask(user_id, task_id, ok) ==
    /\ PublishOutcome(ok)
    /\ IF InvalidUserId(user_id)
       THEN /\ last' = Call("complete_task", user_id, task_id, <<>>, 0, bus, reminders, FALSE,
                            UnauthorizedError)
            /\ UNCHANGED <<tasks, bus, hist>>
       ELSE IF ok
       THEN LET b == Published(bus, "task.completed",
                               CompletionData(user_id, task_id))
            IN /\ Len(b) <= MaxBus
               /\ bus' = b
               /\ hist' = [hist EXCEPT !.ev_pre_completed = EvPre(b, task_id)]
               /\ last' = Call("complete_task", user_id, task_id, <<>>, 0, b, reminders, FALSE,
                               create_success_response(CompletionData(user_id, task_id),
                                   <<"Task ", task_id, " completion requested">>))
               /\ UNCHANGED tasks
       ELSE IF FallbackFails(tasks, user_id, task_id)
       THEN /\ last' = Call("complete_task", user_id, task_id, <<>>, 0, bus, reminders, FALSE,
                            FallbackError(tasks, user_id, task_id))
            /\ UNCHANGED <<tasks, bus, hist>>
       ELSE LET row == CompleteRow(tasks[task_id])
            IN /\ tasks' = Put(tasks, row)
               /\ last' = Call("complete_task", user_id, task_id, <<>>, 0, bus, reminders, TRUE,
                               create_success_response(TaskData(row),
                                   <<"Task '", row.title, "' marked as completed">>))
               /\ UNCHANGED <<bus, hist>>
    /\ UNCHANGED <<next_id, reminders, dapr_available, task_updates, now, notifVars, otherVars>>

---------------------------------------------------------------------------
(* delete_task *)
DeletionData(user_id, task_id, title) == [id |-> task_id, user_id |-> user_id, title |-> title]

DeleteTask(user_id, task_id, ok) ==
    /\ PublishOutcome(ok)
    /\ IF InvalidUserId(user_id)
       THEN /\ last' = Call("delete_task", user_id, task_id, <<>>, 0, bus, reminders, FALSE,
                            UnauthorizedError)
            /\ UNCHANGED <<tasks, bus, hist>>
       ELSE IF FallbackFails(tasks, user_id, task_id)
       THEN \* the lookup and the ownership check come before the publish
            /\ last' = Call("delete_task", user_id, task_id, <<>>, 0, bus, reminders, FALSE,
                            FallbackError(tasks, user_id, task_id))
            /\ UNCHANGED <<tasks, bus, hist>>
       ELSE LET task_title == tasks[task_id].title
                b == IF ok THEN Published(bus, "task.deleted",
                                          DeletionData(user_id, task_id, task_title))
                     ELSE bus
            IN \* the row is deleted after the publish, or by the fallback when it raised
               /\ Len(b) <= MaxBus
               /\ bus' = b
               /\ tasks' = Remove(tasks, task_id)
               /\ hist' = [hist EXCEPT !.ev_pre_completed = EvPre(b, task_id)]
               /\ last' = Call("delete_task", user_id, task_id, <<>>, 0, b, reminders, TRUE,
                               create_success_response(
                                   [task_id |-> task_id, title |-> task_title],
                                   <<"Task ", task_id, " '", task_title, "' deleted">>))
    /\ UNCHANGED <<next_id, reminders, dapr_available, task_updates, now, notifVars, otherVars>>

---------------------------------------------------------------------------
(* view_task *)
ViewData(row) ==
    [id |-> row.id, user_id |-> row.user_id, title |-> row.title,
     description |-> row.description, completed |-> row.completed,
     created_at |-> IsoFormat(row.created_at), updated_at |-> IsoFormat(row.updated_at)]

ViewResponse(store, user_id, task_id) ==
    IF InvalidUserId(user_id) THEN UnauthorizedError
    ELSE IF FallbackFails(store, user_id, task_id) THEN FallbackError(store, user_id, task_id)
    ELSE create_success_response(ViewData(store[task_id]),
                                 <<"Here are the details for task ", task_id>>)

ViewTask(user_id, task_id) ==
    /\ last' = Call("view_task", user_id, task_id, <<>>, 0, bus, reminders, FALSE,
                    ViewResponse(tasks, user_id, task_id))
    /\ UNCHANGED <<tasks, next_id, bus, reminders, dapr_available, task_updates, now, hist, notifVars, otherVars>>

---------------------------------------------------------------------------
(* list_tasks, with the default filter and sort *)
MaxListed == 1

\* _generate_message for filter_type "all" and no search
ListMessage(count) ==
    IF count = 0 THEN <<"You have no tasks yet.">>
    ELSE <<"You have ", count, " total task", IF count # 1 THEN "s" ELSE "", ".">>

\* the serialized tasks of the user; rows created at the same time have no
\* fixed order, so the list is kept as a set
ListData(store, user_id) ==
    {TaskData(store[i]) : i \in {j \in DOMAIN store : store[j].user_id = user_id}}

ListResponse(store, user_id) ==
    create_success_response([tasks |-> ListData(store, user_id),
                             count |-> Cardinality(ListData(store, user_id))],
                            ListMessage(Cardinality(ListData(store, user_id))))

\* the audit event task.listed; a failed publish is logged and the list returned
ListTasks(user_id, ok) ==
    /\ PublishOutcome(ok)
    /\ IF InvalidUserId(user_id)
       THEN /\ ok
            /\ last' = Call("list_tasks", user_id, NoId, <<>>, 0, bus, reminders, FALSE,
                            UnauthorizedError)
            /\ UNCHANGED task_updates
       ELSE LET tu == IF ok
                      THEN Published(task_updates, "task.listed",
                                     [user_id |-> user_id,
                                      result_count |-> Cardinality(ListData(tasks, user_id))])
                      ELSE task_updates
            IN /\ Len(tu) <= MaxListed
               /\ task_updates' = tu
               /\ last' = Call("list_tasks", user_id, NoId, <<>>, 0, bus, reminders, FALSE,
                               ListResponse(tasks, user_id))
    /\ UNCHANGED <<tasks, next_id, bus, reminders, dapr_available, now, hist, notifVars, otherVars>>

---------------------------------------------------------------------------
(* The recurring-task consumer (app/services/recurring_task_service.py) *)
Returned(value) ==
    [success |-> value, code |-> "RETURN", message |-> <<>>, details |-> <<>>, data |-> <<>>]

\* select(Task).where(Task.id == task_id, Task.user_id == user_id).first()
OwnedTaskExists(store, task_id, user_id) ==
    Exists(store, task_id) /\ store[task_id].user_id = user_id

\* the due date of the next occurrence, counted from the time of processing
NextOccurrenceOf(completed_task) ==
    calculate_next_occurrence(completed_task.recurrence, completed_task.recurrence_rule, now)

\* create_next_occurrence returns a task
Projects(completed_task) ==
    ~Falsy(completed_task.recurrence) /\ NextOccurrenceOf(completed_task) # NoDate

\* a new task that takes the column defaults instead of the source's values
NextOccurrenceRowDefaults(completed_task) ==
    TaskRow(next_id, completed_task.user_id, completed_task.title, None, FALSE, now,
            "medium", NextOccurrenceOf(completed_task), <<>>,
            completed_task.recurrence, completed_task.recurrence_rule)

\* the row built by create_next_occurrence
NextOccurrenceRow(completed_task) ==
    TaskRow(next_id, completed_task.user_id, completed_task.title,
            completed_task.description, FALSE, now, completed_task.priority,
            NextOccurrenceOf(completed_task), completed_task.tags,
            completed_task.recurrence, completed_task.recurrence_rule)

\* a text value compared with the integer task_id: the user ids and titles
\* are not numerals, so no row satisfies the comparison
TextEqualsInteger(text, integer) == FALSE

\* func.date(Task.due_date) == func.date(next_occurrence)
SameDate(due_date, next_occurrence) ==
    /\ due_date # NoDate
    /\ <<due_date[1], due_date[2], due_date[3]>>
         = <<next_occurrence[1], next_occurrence[2], next_occurrence[3]>>

\* RecurringTaskService.prevent_duplicate_creation: TRUE if no duplicate
\* exists, FALSE if a duplicate would be created
prevent_duplicate_creation(store, task_id, recurrence, next_occurrence) ==
    LET existing_tasks == {i \in DOMAIN store :
                              /\ TextEqualsInteger(store[i].user_id, task_id)
                              /\ SameDate(store[i].due_date, next_occurrence)}
    IN ~\E i \in existing_tasks :
           /\ TextEqualsInteger(store[i].title, task_id)
           /\ store[i].recurrence = recurrence

Deliveries(i) == IF i \in DOMAIN hist.deliveries THEN hist.deliveries[i] ELSE 0

Delivered(i) ==
    [j \in DOMAIN hist.deliveries \cup {i} |-> IF j = i THEN Deliveries(i) + 1
                                                ELSE hist.deliveries[j]]

\* One delivery of the task.completed event bus[i] to process_task_completed_event;
\* delivery is at-least-once, so an event can be delivered again.
ProcessTaskCompletedEvent(i, ok) ==
    /\ i \in 1..Len(bus)
    /\ bus[i].type = "task.completed"
    /\ Deliveries(i) < MaxDeliveries
    /\ LET task_id == bus[i].data.id
           user_id == bus[i].data.user_id
       IN IF task_id = NoId \/ ~OwnedTaskExists(tasks, task_id, user_id)
             \/ ~Projects(tasks[task_id])
          THEN /\ ok
               /\ last' = Call("process_task_completed_event", user_id, task_id, <<>>, 0,
                               bus, reminders, FALSE, Returned(FALSE))
               /\ hist' = [hist EXCEPT !.deliveries = Delivered(i)]
               /\ UNCHANGED <<tasks, next_id, bus>>
          ELSE LET row == NextOccurrenceRow(tasks[task_id])
                   \* the task.created event of the new task; a failed publish is logged
                   b == IF dapr_available /\ ok
                        THEN Append(bus, [event_id |-> <<"next_occurrence_", row.id>>,
                                          type |-> "task.created", source |-> None,
                                          data |-> [id |-> row.id, user_id |-> row.user_id,
                                                    title |-> row.title,
                                                    due_date |-> IsoFormat(row.due_date)]])
                        ELSE bus
               IN /\ next_id <= MaxTasks
                  /\ Len(b) <= MaxBus
                  /\ tasks' = Put(tasks, row)
                  /\ next_id' = next_id + 1
                  /\ bus' = b
                  /\ hist' = [hist EXCEPT
                                 !.deliveries = Delivered(i),
                                 !.ev_pre_completed = EvPre(b, NoId),
                                 !.proj = [n \in DOMAIN hist.proj \cup {row.id} |->
                                              IF n = row.id THEN [src |-> task_id, ev |-> i]
                                              ELSE hist.proj[n]]]
                  \* req keeps the completed task as the lookup returned it
                  /\ last' = Call("process_task_completed_event", user_id, task_id,
                                  tasks[task_id], 0, b, reminders, TRUE, Returned(TRUE))
    /\ UNCHANGED <<reminders, dapr_available, task_updates, now, notifVars, otherVars>>

---------------------------------------------------------------------------
(* Fallback mutations that run at the same time *)
MaxConns == 2
\* the WebSocket connections that clients can open
Conns == 1..MaxConns

MaxWorkers == 2
Workers == 1..MaxWorkers

\* a worker that has not called retry_failed_notifications
IdleRetrier == [pc |-> "idle", failed_notifications |-> <<>>, todo |-> {}, retry_count |-> 0]

\* a worker that runs no call
Idle == [pc |-> "idle", m |-> <<>>, row |-> <<>>, resp |-> <<>>, stale |-> FALSE]

\* the calls whose publish raised: each has its own Session(engine)
Mutations ==
    { [op |-> "update_task", user_id |-> "A", task_id |-> 1,
       req |-> UpdateRequest("A", 1, None, "high", None)],
      [op |-> "update_task", user_id |-> "A", task_id |-> 1,
       req |-> UpdateRequest("A", 1, "Rent", None, None)],
      [op |-> "complete_task", user_id |-> "A", task_id |-> 1, req |-> <<>>],
      [op |-> "delete_task", user_id |-> "A", task_id |-> 1, req |-> <<>>] }

\* the row a fallback assigns to the task it loaded
Mutated(m, row) ==
    IF m.op = "update_task" THEN UpdateRow(row, m.req)
    ELSE IF m.op = "complete_task" THEN CompleteRow(row)
    ELSE row

\* the response of a fallback that committed; row is the task after refresh,
\* for delete the task as loaded
FallbackSuccess(m, row) ==
    IF m.op = "update_task"
    THEN create_success_response(TaskData(row), <<"Task '", row.title, "' updated successfully">>)
    ELSE IF m.op = "complete_task"
    THEN create_success_response(TaskData(row), <<"Task '", row.title, "' marked as completed">>)
    ELSE create_success_response([task_id |-> m.task_id, title |-> row.title],
                                 <<"Task ", m.task_id, " '", row.title, "' deleted">>)

\* the store after a fallback that runs alone
FallbackStore(store, m) ==
    IF FallbackFails(store, m.user_id, m.task_id) THEN store
    ELSE IF m.op = "delete_task" THEN Remove(store, m.task_id)
    ELSE Put(store, Mutated(m, store[m.task_id]))

\* the response of a fallback that runs alone
FallbackResponse(store, m) ==
    IF FallbackFails(store, m.user_id, m.task_id) THEN FallbackError(store, m.user_id, m.task_id)
    ELSE FallbackSuccess(m, Mutated(m, store[m.task_id]))

\* the UPDATE of the flush: the columns that the call assigned a new value
\* are written over the row as it is in the table now
Flushed(current, loaded, assigned) ==
    [c \in DOMAIN current |-> IF assigned[c] # loaded[c] THEN assigned[c] ELSE current[c]]

\* the flush of an UPDATE that matches no row raises StaleDataError, which is
\* not an MCPToolError
StaleDataError ==
    [success |-> FALSE, code |-> "StaleDataError", message |-> <<>>, details |-> <<>>,
     data |-> <<>>]

\* select(Task).where(Task.id == task_id).first() and validate_ownership in
\* the fresh session of the fallback
FallbackRead(w, m) ==
    /\ workers[w].pc = "idle"
    /\ workers' = [workers EXCEPT ![w] =
          IF FallbackFails(tasks, m.user_id, m.task_id)
          THEN [pc |-> "done", m |-> m, row |-> <<>>,
                resp |-> FallbackError(tasks, m.user_id, m.task_id), stale |-> FALSE]
          ELSE [pc |-> "read", m |-> m, row |-> tasks[m.task_id], resp |-> <<>>,
                stale |-> FALSE]]
    /\ start_store' = IF \A v \in Workers : workers[v].pc = "idle" THEN tasks ELSE start_store
    /\ UNCHANGED <<taskVars, notifVars, retryVars, apiVars, wsVars>>

\* the assignments, session.commit() and session.refresh(task) of the
\* fallback; no lock is held since the read. A DELETE that matches no row
\* only warns.
FallbackWrite(w) ==
    /\ workers[w].pc = "read"
    /\ LET m == workers[w].m
           loaded == workers[w].row
           gone == ~Exists(tasks, m.task_id)
           changed == gone \/ tasks[m.task_id] # loaded
       IN IF m.op = "delete_task"
          THEN /\ tasks' = Remove(tasks, m.task_id)
               /\ workers' = [workers EXCEPT ![w].pc = "done", ![w].stale = changed,
                                             ![w].resp = FallbackSuccess(m, loaded)]
          ELSE IF gone
          THEN /\ workers' = [workers EXCEPT ![w].pc = "done", ![w].resp = StaleDataError]
               /\ UNCHANGED tasks
          ELSE LET row == Flushed(tasks[m.task_id], loaded, Mutated(m, loaded))
               IN /\ tasks' = Put(tasks, row)
                  /\ workers' = [workers EXCEPT ![w].pc = "done", ![w].stale = changed,
                                                ![w].resp = FallbackSuccess(m, row)]
    /\ UNCHANGED <<next_id, bus, reminders, dapr_available, task_updates, now, last, hist,
                   notifVars, start_store, retryVars, apiVars, wsVars>>

---------------------------------------------------------------------------
(* The MCP tools and the recurring-task consumer *)
Init ==
    /\ tasks = <<>>
    /\ next_id = 1
    /\ bus = <<>>
    /\ reminders = <<>>
    /\ dapr_available \in BOOLEAN
    /\ task_updates = <<>>
    /\ now \in NowValues
    /\ last = [op |-> "init", user_id |-> None, task_id |-> NoId, req |-> <<>>,
               intent_writes |-> 0, pre_exists |-> FALSE, pre_owner |-> None,
               pre_completed |-> FALSE, pubs |-> 0, reminders |-> 0, wrote |-> FALSE,
               resp |-> Returned(TRUE)]
    /\ hist = [ev_pre_completed |-> <<>>, deliveries |-> <<>>, proj |-> <<>>]
    /\ notifications = <<>>
    /\ next_notif_id = 1
    /\ nlast = [op |-> "init", id |-> NoId, ret |-> NoId, published |-> FALSE, pre |-> <<>>,
                provider_ok |-> FALSE, streak |-> 0]
    /\ workers = [w \in Workers |-> Idle]
    /\ start_store = <<>>
    /\ retriers = [w \in Workers |-> IdleRetrier]
    /\ retries = [n \in 1..MaxNotifs |-> 0]
    /\ api_sent = <<>>
    /\ active_connections = {}
    /\ user_connections = <<>>
    /\ inbox = [c \in Conns |-> {}]
    /\ closed = {}
    /\ registered = [c \in Conns |-> None]

UserInputs == Users

Next ==
    \/ \E req \in AddRequests, retry \in BOOLEAN, ok1 \in BOOLEAN, ok2 \in BOOLEAN :
          AddTask(req, retry, ok1, ok2)
    \/ \E req \in UpdateRequests, ok \in BOOLEAN : UpdateTask(req, ok)
    \/ \E u \in UserInputs, i \in TaskIds, ok \in BOOLEAN : CompleteTask(u, i, ok)
    \/ \E u \in UserInputs, i \in TaskIds, ok \in BOOLEAN : DeleteTask(u, i, ok)
    \/ \E u \in UserInputs, i \in TaskIds : ViewTask(u, i)
    \/ \E i \in 1..MaxBus, ok \in BOOLEAN : ProcessTaskCompletedEvent(i, ok)

Spec == Init /\ [][Next]_vars

\* Completion and projection alone: recurring tasks of two users are created,
\* completed, and their task.completed events consumed
ProjAddRequests ==
    { AddRequest("A", "Pay rent", "medium", DueJan31, "monthly", None),
      AddRequest("B", " Walk ", "high", NoDate, "custom", "every_weekday") }

ProjNext ==
    \/ \E req \in ProjAddRequests, ok1 \in BOOLEAN, ok2 \in BOOLEAN :
          AddTask(req, FALSE, ok1, ok2)
    \/ \E u \in Users, i \in TaskIds, ok \in BOOLEAN : CompleteTask(u, i, ok)
    \/ \E i \in 1..MaxBus, ok \in BOOLEAN : ProcessTaskCompletedEvent(i, ok)

ProjSpec == Init /\ [][ProjNext]_vars

\* The tools called with and without a valid user_id
InputUsers == {"A", "", None} \cup NonStrings

AuthAddRequests ==
    { AddRequest(u, "Pay rent", "medium", DueJan31, "monthly", None) : u \in InputUsers }

AuthUpdateRequests == { UpdateRequest(u, 1, None, "high", None) : u \in InputUsers }

AuthNext ==
    \/ \E req \in AuthAddRequests, ok1 \in BOOLEAN, ok2 \in BOOLEAN :
          AddTask(req, FALSE, ok1, ok2)
    \/ \E req \in AuthUpdateRequests, ok \in BOOLEAN : UpdateTask(req, ok)
    \/ \E u \in InputUsers, ok \in BOOLEAN : CompleteTask(u, 1, ok)
    \/ \E u \in InputUsers, ok \in BOOLEAN : DeleteTask(u, 1, ok)
    \/ \E u \in InputUsers : ViewTask(u, 1)
    \/ \E u \in InputUsers, ok \in BOOLEAN : ListTasks(u, ok)

AuthSpec == Init /\ [][AuthNext]_vars

\* Create and update requests with fields inside and outside their domains
\* Updates of task 1 that supply different fields, among the tasks of two users
FrameAddRequests ==
    { AddRequest("A", "Pay rent", "medium", DueJan31, "monthly", None),
      AddRequest("B", " Walk ", "high", NoDate, None, None) }

FrameUpdateRequests ==
    { UpdateRequest("A", 1, "Rent", None, None),
      UpdateRequest("A", 1, None, "high", None),
      UpdateRequest("A", 1, None, None, "weekly"),
      [UpdateRequest("A", 1, None, None, None) EXCEPT !.due_date = <<2026, 2, 10, "Z">>,
                                                       !.tags = <<"home">>],
      [UpdateRequest("A", 1, None, None, None) EXCEPT !.description = "by transfer",
                                                       !.recurrence_rule = "every_2_days"],
      UpdateRequest("A", 2, None, "low", None) }

FrameNext ==
    \/ \E req \in FrameAddRequests : AddTask(req, FALSE, FALSE, FALSE)
    \/ \E req \in FrameUpdateRequests, ok \in BOOLEAN : UpdateTask(req, ok)

FrameSpec == Init /\ [][FrameNext]_vars

ElevenTags == <<"t", "t", "t", "t", "t", "t", "t", "t", "t", "t", "t">>

InputAddRequests ==
    { AddRequest("A", "Pay rent", "medium", NoDate, "custom", "every_weekday"),
      AddRequest("A", " ", "medium", NoDate, None, None),
      AddRequest("A", "Pay rent", "urgent", NoDate, None, None),
      [AddRequest("A", "Pay rent", "low", NoDate, None, None) EXCEPT !.tags = ElevenTags],
      [AddRequest("A", "Pay rent", "low", NoDate, None, None)
          EXCEPT !.tags = <<"a-tag-of-twenty-one-c">>],
      AddRequest("A", "Pay rent", "medium", NoDate, "yearly", None),
      AddRequest("A", "Pay rent", "medium", NoDate, "custom", None),
      AddRequest("A", "Pay rent", "medium", NoDate, "custom", "sometimes") }

InputUpdateRequests ==
    { UpdateRequest("A", 1, None, "high", None),
      UpdateRequest("A", 1, None, "urgent", None),
      [UpdateRequest("A", 1, None, None, None) EXCEPT !.tags = ElevenTags],
      UpdateRequest("A", 1, None, None, "yearly") }

InputNext ==
    \/ \E req \in InputAddRequests, ok1 \in BOOLEAN : AddTask(req, FALSE, ok1, TRUE)
    \/ \E req \in InputUpdateRequests, ok \in BOOLEAN : UpdateTask(req, ok)

InputSpec == Init /\ [][InputNext]_vars

---------------------------------------------------------------------------
(* The reminder scheduler (app/services/reminder_scheduler.py) *)
MaxScheduled == 2

\* a <= b on datetimes
DateLE(a, b) ==
    \/ a[1] < b[1]
    \/ a[1] = b[1] /\ a[2] < b[2]
    \/ a[1] = b[1] /\ a[2] = b[2] /\ a[3] <= b[3]

\* the query of schedule_periodic_reminders with hours_before_due = 24: the
\* tasks that are not completed and due between now and now + 24 hours
DueSoon(store) ==
    {i \in DOMAIN store : /\ store[i].due_date # NoDate
                          /\ DateLE(store[i].due_date, AddDays(now, 1))
                          /\ DateLE(now, store[i].due_date)
                          /\ ~store[i].completed}

\* reminder_data of schedule_reminders_for_task
ScheduledReminderData(task) ==
    [task_id |-> task.id, user_id |-> task.user_id, due_date |-> IsoFormat(task.due_date),
     title |-> task.title, priority |-> task.priority]

RECURSIVE ScheduleAll(_, _, _)
\* the topic reminders after the loop over the tasks ids (in the order of their
\* ids); the publishes of the tasks in raised raise and are skipped
ScheduleAll(topic, ids, raised) ==
    IF ids = {} THEN topic
    ELSE LET i == CHOOSE j \in ids : \A k \in ids : j <= k
             next_topic ==
                 IF dapr_available /\ i \notin raised
                 THEN Append(topic, [event_id |-> <<"uuid", Len(bus) + Len(topic)
                                                            + Len(task_updates) + 1>>,
                                     type |-> "task.due_scheduled",
                                     source |-> "todo-chat-api",
                                     data |-> ScheduledReminderData(tasks[i])])
                 ELSE topic
         IN ScheduleAll(next_topic, ids \ {i}, raised)

\* ReminderScheduler.schedule_periodic_reminders: one sweep; it returns the
\* number of tasks whose publish did not raise
SchedulePeriodicReminders(raised) ==
    /\ raised \subseteq DueSoon(tasks)
    /\ raised # {} => dapr_available
    /\ LET r == ScheduleAll(reminders, DueSoon(tasks), raised)
       IN /\ Len(r) <= MaxScheduled
          /\ reminders' = r
          /\ last' = Call("schedule_periodic_reminders", None, NoId, <<>>, 0, bus, r, FALSE,
                          Returned(Cardinality(DueSoon(tasks) \ raised)))
    /\ UNCHANGED <<tasks, next_id, bus, dapr_available, task_updates, now, hist, notifVars, otherVars>>

SweepAddRequests ==
    { AddRequest("A", "Pay rent", "medium", DueJan31, "monthly", None),
      AddRequest("B", " Walk ", "high", NoDate, None, None) }

SweepNext ==
    \/ \E req \in SweepAddRequests, ok1 \in BOOLEAN, ok2 \in BOOLEAN :
          AddTask(req, FALSE, ok1, ok2)
    \/ \E u \in Users, i \in TaskIds, ok \in BOOLEAN : CompleteTask(u, i, ok)
    \/ \E raised \in SUBSET TaskIds : SchedulePeriodicReminders(raised)

SweepSpec == Init /\ [][SweepNext]_vars

\* Concurrent fallbacks on one task: the publisher is in use and raises
ConcInit ==
    /\ Init
    /\ dapr_available

ConcNext ==
    \/ \E req \in {AddRequest("A", "Pay rent", "medium", DueJan31, "monthly", None)} :
          /\ tasks = <<>>
          /\ AddTask(req, FALSE, FALSE, FALSE)
    \/ \E w \in Workers, m \in Mutations : next_id > 1 /\ FallbackRead(w, m)
    \/ \E w \in Workers : FallbackWrite(w)

ConcSpec == ConcInit /\ [][ConcNext]_vars

---------------------------------------------------------------------------
(* The notification service (notification-service/src) *)
\* the attempt ceiling of retry_failed_notifications and handle_failed_notification
MaxDeliveryAttempts == 3

\* the row added by send_notification: the record is created as already sent
NotificationRow(id, user_id, task_id, due_date, message, channel) ==
    [id |-> id, task_id |-> task_id, user_id |-> user_id,
     scheduled_time |-> IF due_date # NoDate THEN ParseIso(due_date) ELSE now,
     sent_time |-> now, status |-> "sent", delivery_attempts |-> 1,
     channel |-> channel, message_content |-> message,
     created_at |-> now, updated_at |-> now]

\* datetime.fromisoformat raises ValueError
DueDateUnparsable(due_date) == due_date # NoDate /\ ~IsIsoDate(due_date)

\* the record of a call kept for the properties; provider_ok is the answer the
\* channel provider has for a delivery during the call
NCall(op, id, ret, published) ==
    [op |-> op, id |-> id, ret |-> ret, published |-> published, pre |-> notifications,
     provider_ok |-> FALSE, streak |-> 0]

\* NotificationService.send_notification(user_id, task_id, title, due_date, message, channel)
SendRequests ==
    { [user_id |-> "A", task_id |-> 1, title |-> "Pay rent", due_date |-> DueJan31,
       message |-> <<"Task '", "Pay rent", "' is due soon!">>, channel |-> "push"],
      [user_id |-> "B", task_id |-> 2, title |-> "Walk", due_date |-> NoDate,
       message |-> <<"Task '", "Walk", "' is due soon!">>, channel |-> "email"] }

SendNotification(req) ==
    /\ next_notif_id <= MaxNotifs
    /\ ~DueDateUnparsable(req.due_date)
    /\ notifications' = Put(notifications,
                            NotificationRow(next_notif_id, req.user_id, req.task_id,
                                            req.due_date, req.message, req.channel))
    /\ next_notif_id' = next_notif_id + 1
    /\ nlast' = NCall("send_notification", next_notif_id, next_notif_id, FALSE)
    /\ UNCHANGED <<taskVars, otherVars>>

\* reminder events: data of task.due_scheduled
ReminderEvent(task_id, user_id, due_date, title, priority) ==
    [task_id |-> task_id, user_id |-> user_id, due_date |-> due_date, title |-> title,
     priority |-> priority, channel |-> "push"]

ReminderEvents ==
    { ReminderEvent(1, "A", <<2026, 1, 31, "T">>, "Pay rent", "medium"),
      ReminderEvent(2, "B", NoDate, "Walk", "high"),
      ReminderEvent(NoId, "A", DueJan31, "Pay rent", "medium"),
      ReminderEvent(1, "A", <<"bad">>, "Pay rent", "low") }

\* the message of ReminderConsumer.process_reminder_event
ReminderMessage(ev) ==
    IF ev.due_date # NoDate
    THEN <<"URGENT REMINDER: Task '", ev.title, "' is due at ", ev.due_date>>
    ELSE IF ev.priority = "high" THEN <<"HIGH PRIORITY: Task '", ev.title, "' is due soon!">>
    ELSE IF ev.priority = "low"
         THEN <<"Low priority reminder: Task '", ev.title, "' is due soon.">>
    ELSE <<"Reminder: Task '", ev.title, "' is due soon!">>

\* not all([task_id, user_id, title])
ReminderIncomplete(ev) == ev.task_id = NoId \/ Falsy(ev.user_id) \/ Falsy(ev.title)

\* ReminderConsumer.process_reminder_event: ok is the outcome of publishing
\* notification.sent, whose failure is only logged
ProcessReminderEvent(ev, ok) ==
    /\ PublishOutcome(ok)
    /\ IF ReminderIncomplete(ev) \/ DueDateUnparsable(ev.due_date)
       THEN /\ ok
            /\ nlast' = NCall("process_reminder_event", NoId, FALSE, FALSE)
            /\ UNCHANGED <<notifications, next_notif_id>>
       ELSE /\ next_notif_id <= MaxNotifs
            /\ notifications' = Put(notifications,
                                    NotificationRow(next_notif_id, ev.user_id, ev.task_id,
                                                    ev.due_date, ReminderMessage(ev),
                                                    ev.channel))
            /\ next_notif_id' = next_notif_id + 1
            /\ nlast' = NCall("process_reminder_event", next_notif_id, TRUE,
                              dapr_available /\ ok)
    /\ UNCHANGED <<taskVars, otherVars>>

\* get_failed_notifications
Failed(store) == {n \in DOMAIN store : store[n].status = "failed"}

\* a retry loop that still retries at the ceiling
RetryEligibleAtCeiling(notification) == notification.delivery_attempts <= MaxDeliveryAttempts

\* the test of the retry loop
RetryEligible(notification) == notification.delivery_attempts < MaxDeliveryAttempts

\* NotificationService.retry_failed_notifications: the loop logs the retry and
\* counts the attempt; no channel provider is called, whatever its answer would be
MaxStreak == 4

\* a retry that leaves the attempt count as it was
AttemptNotCounted(notification) == notification

\* notification.delivery_attempts += 1
AttemptCounted(notification) == [notification EXCEPT !.delivery_attempts = @ + 1]

\* the number of calls of retry_failed_notifications in a row, this one included
RetryStreak == IF nlast.op = "retry_failed_notifications" THEN nlast.streak + 1 ELSE 1

RetryFailedNotifications(provider_ok) ==
    LET retried == {n \in Failed(notifications) : RetryEligible(notifications[n])}
    IN /\ RetryStreak <= MaxStreak
       /\ notifications' =
             [n \in DOMAIN notifications |->
                 IF n \in retried
                 THEN AttemptCounted(notifications[n])
                 ELSE notifications[n]]
       /\ nlast' = [NCall("retry_failed_notifications", NoId, Cardinality(retried), FALSE)
                       EXCEPT !.provider_ok = provider_ok, !.streak = RetryStreak]
       /\ UNCHANGED <<next_notif_id, taskVars, otherVars>>

NotifIds == 1..MaxNotifs

\* the row after a recorded failure
FailureRow(notification) ==
    [notification EXCEPT !.status = "failed", !.delivery_attempts = @ + 1]

\* the number of failures recorded on a row is bounded in the model
FailuresBound == MaxDeliveryAttempts + MaxFailures

\* NotificationService.record_delivery_failure
RecordDeliveryFailure(notification_id) ==
    /\ IF notification_id \in DOMAIN notifications
       THEN /\ notifications[notification_id].delivery_attempts < FailuresBound
            /\ notifications' = Put(notifications, FailureRow(notifications[notification_id]))
            /\ nlast' = NCall("record_delivery_failure", notification_id, notification_id,
                              FALSE)
       ELSE /\ nlast' = NCall("record_delivery_failure", notification_id, NoId, FALSE)
            /\ UNCHANGED notifications
    /\ UNCHANGED <<next_notif_id, taskVars, otherVars>>

\* ReminderConsumer.handle_failed_notification: below the ceiling a retry is
\* only logged, at the ceiling move_to_dead_letter_queue only logs
HandleFailedNotification(notification_id) ==
    /\ IF notification_id \in DOMAIN notifications
       THEN /\ notifications[notification_id].delivery_attempts < FailuresBound
            /\ notifications' = Put(notifications, FailureRow(notifications[notification_id]))
       ELSE UNCHANGED notifications
    /\ nlast' = NCall("handle_failed_notification", notification_id, NoId, FALSE)
    /\ UNCHANGED <<next_notif_id, taskVars, otherVars>>

NotifNext ==
    \/ \E req \in SendRequests : SendNotification(req)
    \/ \E ev \in ReminderEvents, ok \in BOOLEAN : ProcessReminderEvent(ev, ok)
    \/ \E provider_ok \in BOOLEAN : RetryFailedNotifications(provider_ok)
    \/ \E n \in NotifIds : RecordDeliveryFailure(n)
    \/ \E n \in NotifIds : HandleFailedNotification(n)

NotifSpec == Init /\ [][NotifNext]_vars

\* Retrying with no new failure in between
TermNext ==
    \/ \E req \in SendRequests : SendNotification(req)
    \/ \E n \in NotifIds : RecordDeliveryFailure(n)
    \/ \E provider_ok \in BOOLEAN : RetryFailedNotifications(provider_ok)

TermSpec == Init /\ [][TermNext]_vars

\* the event data as process_reminder_event reads it: priority and channel
\* have defaults
ReminderEventOf(data) ==
    ReminderEvent(data.task_id, data.user_id, data.due_date, data.title,
                  IF "priority" \in DOMAIN data THEN data.priority ELSE "medium")

\* one delivery of the event reminders[i] to the reminder consumer
ConsumeReminder(i, ok) ==
    /\ i \in 1..Len(reminders)
    /\ ProcessReminderEvent(ReminderEventOf(reminders[i].data), ok)

\* add_task and the consumer of the topic reminders
RemindAddRequests ==
    SweepAddRequests \cup {AddRequest("B", "Walk", "high", DueJan31, None, None)}

RemindNext ==
    \/ \E req \in RemindAddRequests, ok1 \in BOOLEAN, ok2 \in BOOLEAN :
          AddTask(req, FALSE, ok1, ok2)
    \/ \E i \in 1..MaxReminders, ok \in BOOLEAN : ConsumeReminder(i, ok)

RemindSpec == Init /\ [][RemindNext]_vars

\* The notification service of the API (app/services/notification_service.py)
MaxSent == 2

\* if task.completed: the reminder is skipped
ReminderNeverSkipped(task) == FALSE

ReminderSkipped(task) == task.completed

\* the message of NotificationService.process_reminder_event
ApiReminderMessage(ev) ==
    IF ev.due_date # NoDate
    THEN <<"Reminder: Task '", ev.title, "' is due at ", ev.due_date>>
    ELSE <<"Reminder: Task '", ev.title, "' is due soon!">>

ApiReminderEvents ==
    { ReminderEvent(1, "A", <<2026, 1, 31, "T">>, "Pay rent", "medium"),
      ReminderEvent(1, "B", <<2026, 1, 31, "T">>, "Pay rent", "medium"),
      ReminderEvent(2, "B", NoDate, "Walk", "high"),
      ReminderEvent(3, "A", NoDate, "Walk", "high"),
      ReminderEvent(NoId, "A", DueJan31, "Pay rent", "medium") }

\* NotificationService.process_reminder_event of the API: ok is the outcome of
\* publishing notification.sent, whose failure is only logged
ApiProcessReminderEvent(ev, ok) ==
    /\ PublishOutcome(ok)
    /\ IF ReminderIncomplete(ev) \/ ~OwnedTaskExists(tasks, ev.task_id, ev.user_id)
       THEN /\ ok
            /\ last' = Call("process_reminder_event", ev.user_id, ev.task_id, ev, 0, bus,
                            reminders, FALSE, Returned(FALSE))
            /\ UNCHANGED api_sent
       ELSE IF ReminderSkipped(tasks[ev.task_id])
       THEN /\ ok
            /\ last' = Call("process_reminder_event", ev.user_id, ev.task_id, ev, 0, bus,
                            reminders, FALSE, Returned(TRUE))
            /\ UNCHANGED api_sent
       ELSE /\ Len(api_sent) < MaxSent
            /\ api_sent' = Append(api_sent,
                                   [user_id |-> ev.user_id, task_id |-> ev.task_id,
                                    title |-> ev.title, due_date |-> ev.due_date,
                                    message |-> ApiReminderMessage(ev),
                                    published |-> dapr_available /\ ok])
            /\ last' = Call("process_reminder_event", ev.user_id, ev.task_id, ev, 0, bus,
                            reminders, FALSE, Returned(TRUE))
    /\ UNCHANGED <<tasks, next_id, bus, reminders, dapr_available, task_updates, now, hist,
                   notifVars, concVars, retryVars, wsVars>>

ApiNext ==
    \/ \E req \in FrameAddRequests : AddTask(req, FALSE, FALSE, FALSE)
    \/ \E u \in Users, i \in TaskIds : CompleteTask(u, i, FALSE)
    \/ \E u \in Users, i \in TaskIds : DeleteTask(u, i, FALSE)
    \/ \E ev \in ApiReminderEvents, ok \in BOOLEAN : ApiProcessReminderEvent(ev, ok)

ApiSpec == Init /\ [][ApiNext]_vars

\* a batch item whose due date datetime.fromisoformat cannot parse
UnparsableRequest ==
    [user_id |-> "A", task_id |-> 3, title |-> "Call", due_date |-> <<"bad">>,
     message |-> <<"Task '", "Call", "' is due soon!">>, channel |-> "push"]

MaxBatch == 2
Batches ==
    UNION { [1..k -> SendRequests \cup {UnparsableRequest}] : k \in 1..MaxBatch }

RECURSIVE SendBatch(_, _, _)
\* the loop of send_batch_notifications from item i on: the rows stored when
\* the loop ends, by running out of items or by the first send_notification
\* that raises
SendBatch(store, batch, i) ==
    IF i > Len(batch) \/ DueDateUnparsable(batch[i].due_date) THEN store
    ELSE LET req == batch[i]
             id == next_notif_id + Cardinality(DOMAIN store \ DOMAIN notifications)
         IN SendBatch(Put(store, NotificationRow(id, req.user_id, req.task_id, req.due_date,
                                                 req.message, req.channel)),
                      batch, i + 1)

\* NotificationService.send_batch_notifications(notifications): it returns
\* the list of rows, or the ValueError of an item propagates
SendBatchNotifications(batch) ==
    LET store == SendBatch(notifications, batch, 1)
        sent == Cardinality(DOMAIN store \ DOMAIN notifications)
        raised == \E i \in 1..Len(batch) : DueDateUnparsable(batch[i].due_date)
    IN /\ next_notif_id + Len(batch) - 1 <= MaxNotifs
       /\ notifications' = store
       /\ next_notif_id' = next_notif_id + sent
       /\ nlast' = [op |-> "send_batch_notifications", id |-> NoId,
                    ret |-> IF raised THEN -1 ELSE sent, published |-> FALSE,
                    pre |-> notifications, provider_ok |-> FALSE, streak |-> 0,
                    batch |-> batch]
       /\ UNCHANGED <<taskVars, otherVars>>

BatchNext ==
    \/ \E batch \in Batches : SendBatchNotifications(batch)
    \/ \E n \in NotifIds : RecordDeliveryFailure(n)
    \/ \E n \in NotifIds : HandleFailedNotification(n)

BatchSpec == Init /\ [][BatchNext]_vars

\* get_failed_notifications() of a worker: the rows are loaded in a session
\* that is closed at once, so the loop works on detached copies
LoadFailedNotifications(w) ==
    /\ retriers[w].pc = "idle"
    /\ retriers' = [retriers EXCEPT ![w] =
          IF Failed(notifications) = {}
          THEN [IdleRetrier EXCEPT !.pc = "done"]
          ELSE [pc |-> "loop", failed_notifications |-> notifications,
                todo |-> Failed(notifications), retry_count |-> 0]]
    /\ UNCHANGED <<taskVars, notifVars, concVars, retries, apiVars, wsVars>>

\* one turn of the loop of retry_failed_notifications: the attempt count of
\* the copy is compared and incremented, and session.add and commit write
\* that value to the row
RetryOneNotification(w) ==
    /\ retriers[w].pc = "loop"
    /\ LET n == CHOOSE i \in retriers[w].todo : \A j \in retriers[w].todo : i <= j
           copy == retriers[w].failed_notifications[n]
           rest == retriers[w].todo \ {n}
           pc == IF rest = {} THEN "done" ELSE "loop"
       IN IF RetryEligible(copy)
          THEN /\ notifications' =
                     [notifications EXCEPT ![n].delivery_attempts = copy.delivery_attempts + 1]
               /\ retries' = [retries EXCEPT ![n] = @ + 1]
               /\ retriers' = [retriers EXCEPT ![w].todo = rest, ![w].pc = pc,
                                               ![w].retry_count = @ + 1]
          ELSE /\ retriers' = [retriers EXCEPT ![w].todo = rest, ![w].pc = pc]
               /\ UNCHANGED <<notifications, retries>>
    /\ UNCHANGED <<next_notif_id, nlast, taskVars, concVars, apiVars, wsVars>>

RetryNext ==
    \/ \E req \in SendRequests : SendNotification(req)
    \/ \E n \in NotifIds :
          \* the failures are recorded before the workers start
          /\ \A w \in Workers : retriers[w].pc = "idle"
          /\ RecordDeliveryFailure(n)
    \/ \E w \in Workers : LoadFailedNotifications(w)
    \/ \E w \in Workers : RetryOneNotification(w)

RetrySpec == Init /\ [][RetryNext]_vars

---------------------------------------------------------------------------
(* calculate_next_occurrence over the calendar, and the recurrence validator *)
MaxYear == 2026
MaxN == 3

CalcYears == 2024..MaxYear
CalcHours == {0, 23}

\* the datetimes handed to calculate_next_occurrence: every day of CalcYears
CalcDates ==
    {<<y, m, d, h>> : y \in CalcYears, m \in 1..12, d \in 1..31, h \in CalcHours}

\* the rule strings every_N_days
EveryNDaysRule(n) ==
    CASE n = 1 -> "every_1_days"
      [] n = 2 -> "every_2_days"
      [] n = 3 -> "every_3_days"
      [] n = 4 -> "every_4_days"
      [] OTHER -> "every_5_days"

EveryNDaysRules == {EveryNDaysRule(n) : n \in 1..MaxN}

\* RecurrenceValidator._validate_custom_rule on the rules used here: the
\* patterns every_\d+_days?, every_\w+day (and its two longer forms), and the
\* iCalendar keywords
validate_custom_rule(rule) ==
    \/ rule \in {EveryNDaysRule(n) : n \in 1..5}
    \/ rule \in {"every_weekday", "every_monday", "every_monday_to_friday"}
    \/ rule \in {"FREQ=DAILY;INTERVAL=2"}

\* RecurrenceValidator.validate_recurrence_pattern: the value of result["valid"]
validate_recurrence_pattern(recurrence, recurrence_rule) ==
    /\ recurrence \in {"daily", "weekly", "monthly", "custom"}
    /\ recurrence = "custom" =>
          (~Falsy(recurrence_rule) /\ validate_custom_rule(recurrence_rule))

CalcCases ==
    {[recurrence |-> r, recurrence_rule |-> None] : r \in {None, "daily", "weekly", "monthly", "custom"}}
    \cup {[recurrence |-> "custom", recurrence_rule |-> rule] :
             rule \in EveryNDaysRules \cup {"every_weekday", "sometimes"}}

CalcInit ==
    /\ tasks = <<>>
    /\ next_id = 1
    /\ bus = <<>>
    /\ reminders = <<>>
    /\ dapr_available = FALSE
    /\ task_updates = <<>>
    /\ now \in {dt \in CalcDates : dt[3] <= DaysInMonth(dt[1], dt[2])}
    /\ last = [op |-> "init"]
    /\ hist = [ev_pre_completed |-> <<>>, deliveries |-> <<>>, proj |-> <<>>]
    /\ notifications = <<>>
    /\ next_notif_id = 1
    /\ nlast = [op |-> "init"]
    /\ workers = [w \in Workers |-> Idle]
    /\ start_store = <<>>
    /\ retriers = [w \in Workers |-> IdleRetrier]
    /\ retries = [n \in 1..MaxNotifs |-> 0]
    /\ api_sent = <<>>
    /\ active_connections = {}
    /\ user_connections = <<>>
    /\ inbox = [c \in Conns |-> {}]
    /\ closed = {}
    /\ registered = [c \in Conns |-> None]

\* one call calculate_next_occurrence(recurrence, recurrence_rule, datetime.utcnow())
Calculate(recurrence, recurrence_rule) ==
    /\ last' = [op |-> "calculate_next_occurrence", recurrence |-> recurrence,
                recurrence_rule |-> recurrence_rule, last_completion |-> now,
                valid |-> validate_recurrence_pattern(recurrence, recurrence_rule),
                result |-> calculate_next_occurrence(recurrence, recurrence_rule, now)]
    /\ UNCHANGED <<tasks, next_id, bus, reminders, dapr_available, task_updates, now, hist, notifVars, otherVars>>

CalcNext == \E c \in CalcCases : Calculate(c.recurrence, c.recurrence_rule)

CalcSpec == CalcInit /\ [][CalcNext]_vars

---------------------------------------------------------------------------
(* The WebSocket service (websocket-service/src) *)
MaxInbox == 1

\* the connections registered under user_id, none if the user has no entry
ConnectionsOf(registry, user_id) ==
    IF user_id \in DOMAIN registry THEN registry[user_id] ELSE {}

\* the registry with the entry of user_id set to connections; an empty entry
\* is deleted
WithConnections(registry, user_id, connections) ==
    [u \in (DOMAIN registry \ {user_id}) \cup (IF connections = {} THEN {} ELSE {user_id}) |->
        IF u = user_id THEN connections ELSE registry[u]]

\* websocket.send(...) of connect, then the two registrations; the coroutine
\* then waits for the socket to close
Connect(websocket, user_id) ==
    /\ registered[websocket] = None
    /\ websocket \notin closed
    /\ inbox' = [inbox EXCEPT ![websocket] =
                    @ \cup {[type |-> "connection_established", user_id |-> user_id]}]
    /\ active_connections' = active_connections \cup {websocket}
    /\ user_connections' =
          WithConnections(user_connections, user_id,
                          ConnectionsOf(user_connections, user_id) \cup {websocket})
    /\ registered' = [registered EXCEPT ![websocket] = user_id]
    /\ UNCHANGED <<closed, taskVars, notifVars, concVars, retryVars, apiVars>>

\* the peer closes the socket of a connection
Close(websocket) ==
    /\ registered[websocket] # None
    /\ websocket \notin closed
    /\ closed' = closed \cup {websocket}
    /\ UNCHANGED <<active_connections, user_connections, inbox, registered, taskVars,
                   notifVars, concVars, retryVars, apiVars>>

\* WebSocketHandler.disconnect, called by connect when wait_closed returns
Disconnect(websocket) ==
    /\ registered[websocket] # None
    /\ websocket \in closed
    /\ websocket \in active_connections
          \/ websocket \in ConnectionsOf(user_connections, registered[websocket])
    /\ active_connections' = active_connections \ {websocket}
    /\ user_connections' =
          WithConnections(user_connections, registered[websocket],
                          ConnectionsOf(user_connections, registered[websocket])
                              \ {websocket})
    /\ UNCHANGED <<inbox, closed, registered, taskVars, notifVars, concVars, retryVars,
                   apiVars>>

\* the connections whose send raises: the closed ones and those in errors
Unreachable(targets, errors) == targets \cap (closed \cup errors)

\* the inboxes after message was sent to the targets that could be reached
Sent(targets, errors, message) ==
    [c \in Conns |-> IF c \in targets \ Unreachable(targets, errors)
                     THEN inbox[c] \cup {message} ELSE inbox[c]]

\* no inbox of the model grows beyond MaxInbox messages and the greeting
InboxesHaveRoom(targets) == \A c \in targets : Cardinality(inbox[c]) <= MaxInbox

\* WebSocketHandler.broadcast_to_all
BroadcastToAll(message, errors) ==
    /\ InboxesHaveRoom(active_connections)
    /\ inbox' = Sent(active_connections, errors, message)
    /\ active_connections' = active_connections \ Unreachable(active_connections, errors)
    /\ UNCHANGED <<user_connections, closed, registered, taskVars, notifVars, concVars,
                   retryVars, apiVars>>

\* a loop over every active connection instead of the user's
EveryConnection(user_id) == active_connections

\* for connection in self.user_connections[user_id]
BroadcastTargets(user_id) == user_connections[user_id]

\* WebSocketHandler.broadcast_to_user
BroadcastToUser(user_id, message, errors) ==
    /\ IF ConnectionsOf(user_connections, user_id) = {}
       THEN UNCHANGED <<inbox, user_connections, active_connections>>
       ELSE LET targets == BroadcastTargets(user_id)
                disconnected_clients == Unreachable(targets, errors)
            IN /\ InboxesHaveRoom(targets)
               /\ inbox' = Sent(targets, errors, message)
               /\ user_connections' =
                     WithConnections(user_connections, user_id,
                                     user_connections[user_id] \ disconnected_clients)
               /\ active_connections' = active_connections \ disconnected_clients
    /\ UNCHANGED <<closed, registered, taskVars, notifVars, concVars, retryVars, apiVars>>

\* the events of the topic task-updates
TaskEvent(type, user_id) == [type |-> type, data |-> [user_id |-> user_id]]

TaskEvents ==
    { TaskEvent("task.created", "A"), TaskEvent("task.completed", "A"),
      TaskEvent("task.deleted", "A"), TaskEvent("task.updated", "B"),
      TaskEvent("task.listed.api", "B"), TaskEvent("task.created", None) }

\* the type of the message that process_task_event builds for an event type
MessageType(event_type) ==
    IF event_type \in {"task.created", "task.created.api"} THEN "task_created"
    ELSE IF event_type \in {"task.updated", "task.updated.api"} THEN "task_update"
    ELSE IF event_type \in {"task.completed", "task.completed.api"} THEN "task_completed"
    ELSE IF event_type = "task.listed.api" THEN "tasks_listed"
    ELSE "task_general_update"

\* TaskUpdatesConsumer.process_task_event: every branch ends in broadcast_to_user
ProcessTaskEvent(event_data, errors) ==
    IF Falsy(event_data.data.user_id)
    THEN UNCHANGED vars
    ELSE BroadcastToUser(event_data.data.user_id,
                         [type |-> MessageType(event_data.type),
                          user_id |-> event_data.data.user_id],
                         errors)

\* WebSocketHandler.handle_system_message(message, user_id)
HandleSystemMessage(user_id, errors) ==
    IF user_id # None
    THEN BroadcastToUser(user_id, [type |-> "system_message", user_id |-> None], errors)
    ELSE BroadcastToAll([type |-> "system_message", user_id |-> None], errors)

WsNext ==
    \/ \E c \in Conns, u \in Users : Connect(c, u)
    \/ \E c \in Conns : Close(c)
    \/ \E c \in Conns : Disconnect(c)
    \/ \E ev \in TaskEvents, errors \in SUBSET Conns : ProcessTaskEvent(ev, errors)
    \/ \E u \in Users \cup {None}, errors \in SUBSET Conns : HandleSystemMessage(u, errors)

\* the service has no part in the task store or the publisher
WsInit ==
    /\ Init
    /\ dapr_available
    /\ now = <<2026, 1, 30>>

WsSpec == WsInit /\ [][WsNext]_vars

---------------------------------------------------------------------------
(* Properties *)
MutationOps == {"add_task", "update_task", "complete_task", "delete_task"}
TargetOps == {"view_task", "update_task", "complete_task", "delete_task"}

\* the last call addressed a task that exists and belongs to another user
ForeignCall ==
    /\ last.op \in TargetOps
    /\ last.pre_exists
    /\ last.pre_owner # last.user_id

\* C1: every mutation request that is accepted takes effect on exactly one of
\* the two paths: either an event is published on task-events or the store is
\* written, never both and never neither.
C1_ExactlyOnePath ==
    (last.op \in MutationOps /\ last.resp.success)
        => ((last.pubs > 0) # last.wrote)

\* C2: view, update, complete and delete of an existing task of another user
\* answer NOT_FOUND, whatever the outcome of the publish.
C2_ForeignTaskNotFound ==
    (ForeignCall /\ last.resp.code # "VALIDATION_ERROR")
        => last.resp.code = "NOT_FOUND"

\* C3: for a requester u and a task i of another user, the answer of view,
\* update, complete and delete is the same in the store as it is and in the
\* store without task i: code, message and details do not tell whether the
\* task exists.
C3_ForeignLikeMissing ==
    \A i \in DOMAIN tasks : \A u \in Users :
        tasks[i].user_id # u =>
            /\ ViewResponse(tasks, u, i) = ViewResponse(Remove(tasks, i), u, i)
            /\ FallbackFails(tasks, u, i)
            /\ FallbackFails(Remove(tasks, i), u, i)
            /\ FallbackError(tasks, u, i) = FallbackError(Remove(tasks, i), u, i)

\* C4: a create request that is invoked again for the same intent leaves one
\* task of that intent in the store, and applying an update a second time
\* changes nothing more.
C4_RetryIdempotent ==
    /\ last.op = "add_task" => last.intent_writes <= 1
    /\ \A i \in DOMAIN tasks : \A req \in UpdateRequests :
          UpdateRow(UpdateRow(tasks[i], req), req) = UpdateRow(tasks[i], req)

\* C5: completing a task that is already completed succeeds, leaves it
\* completed, and no recurrence projection comes from such a completion.
C5_RepeatedCompletionHasNoEffect ==
    /\ (last.op = "complete_task" /\ last.pre_exists /\ last.pre_completed
        /\ last.pre_owner = last.user_id)
          => /\ last.resp.success
             /\ Exists(tasks, last.task_id) /\ tasks[last.task_id].completed
    /\ \A p \in DOMAIN hist.proj : ~hist.ev_pre_completed[hist.proj[p].ev]

\* C6: however often one task.completed event is delivered, at most one
\* next-occurrence task is created from it.
C6_OneProjectionPerEvent ==
    \A e \in 1..Len(bus) :
        Cardinality({p \in DOMAIN hist.proj : hist.proj[p].ev = e}) <= 1

\* C7: a successful create with a due date publishes exactly one reminder
\* event for the created task, on the bus path and on the fallback path.
C7_ReminderOncePerCreate ==
    (last.op = "add_task" /\ last.resp.success /\ last.req.due_date # NoDate)
        => last.reminders = 1

\* a notification that is failed with its attempts at the ceiling or above
DeadLetter(notification) ==
    notification.status = "failed" /\ notification.delivery_attempts >= 3

\* C8: retry_failed_notifications leaves every failed notification with 3 or
\* more delivery attempts as it was and returns the number of the failed
\* notifications below 3 attempts only.
C8_CeilingNotRetried ==
    nlast.op = "retry_failed_notifications" =>
        /\ \A n \in DOMAIN nlast.pre :
              DeadLetter(nlast.pre[n]) => notifications[n] = nlast.pre[n]
        /\ nlast.ret = Cardinality({n \in DOMAIN nlast.pre :
                                      /\ nlast.pre[n].status = "failed"
                                      /\ nlast.pre[n].delivery_attempts < 3})

\* C8 witness: a retry ran over a failed notification with 3 attempts and
\* over another failed one below the ceiling, which alone was counted
C8_Witness ==
    /\ nlast.op = "retry_failed_notifications"
    /\ \E n \in DOMAIN nlast.pre :
          nlast.pre[n].status = "failed" /\ nlast.pre[n].delivery_attempts = 3
    /\ nlast.ret = 1

\* C9: the dead-letter state is terminal: no call changes the status or the
\* attempts of a notification that was failed with 3 attempts, and
\* delivery_attempts never exceeds 3.
C9_DeadLetterTerminal ==
    \A n \in DOMAIN notifications :
        /\ notifications[n].delivery_attempts <= 3
        /\ (n \in DOMAIN nlast.pre /\ DeadLetter(nlast.pre[n]))
              => /\ notifications[n].status = nlast.pre[n].status
                 /\ notifications[n].delivery_attempts = nlast.pre[n].delivery_attempts

\* the status changes of the notification state machine
AllowedTransitions ==
    { <<"pending", "delivered">>, <<"pending", "failed">>,
      <<"failed", "delivered">>, <<"failed", "failed">> }

\* C10: a notification is created pending with no delivery attempt and
\* scheduled at the due date, changes status only along pending -> {delivered,
\* failed} and failed -> {delivered, failed}, and is never deleted.
C10_NotificationStateMachine ==
    /\ DOMAIN nlast.pre \subseteq DOMAIN notifications
    /\ \A n \in DOMAIN notifications :
          IF n \in DOMAIN nlast.pre
          THEN \/ notifications[n].status = nlast.pre[n].status
               \/ <<nlast.pre[n].status, notifications[n].status>> \in AllowedTransitions
          ELSE /\ notifications[n].status = "pending"
               /\ notifications[n].delivery_attempts = 0

\* the notifications that the last call of retry_failed_notifications retried
Retried ==
    {n \in DOMAIN nlast.pre : /\ nlast.pre[n].status = "failed"
                              /\ nlast.pre[n].delivery_attempts < 3}

\* C11: retry_failed_notifications delivers again every failed notification
\* below 3 attempts: its delivery_attempts grows by one, and it ends delivered
\* with sent_time set when the provider succeeds, failed when the provider fails.
C11_RetryDelivers ==
    nlast.op = "retry_failed_notifications" =>
        \A n \in Retried :
            /\ notifications[n].delivery_attempts = nlast.pre[n].delivery_attempts + 1
            /\ IF nlast.provider_ok
               THEN notifications[n].status = "delivered" /\ notifications[n].sent_time # NoDate
               ELSE notifications[n].status = "failed"

\* the last call was a delivery of task.completed that created a next occurrence
Projected == last.op = "process_task_completed_event" /\ last.wrote

\* the task created by the last projection
ProjectedTask == tasks[next_id - 1]

\* C12: the task created for a completed recurring task is due at the next
\* occurrence counted from the due date of the completed task (monthly, due
\* 2026-01-31, gives 2026-02-28), is not completed and has the same title and
\* recurrence.
C12_NextDueFromSourceDue ==
    (Projected /\ last.req.due_date # NoDate) =>
        /\ ProjectedTask.due_date =
              calculate_next_occurrence(last.req.recurrence, last.req.recurrence_rule,
                                        last.req.due_date)
        /\ (last.req.recurrence = "monthly" /\ last.req.due_date = <<2026, 1, 31>>)
              => ProjectedTask.due_date = <<2026, 2, 28>>
        /\ ~ProjectedTask.completed
        /\ ProjectedTask.title = last.req.title
        /\ ProjectedTask.recurrence = last.req.recurrence

\* the last step was a call of calculate_next_occurrence with this recurrence
Calculated(recurrence) ==
    last.op = "calculate_next_occurrence" /\ last.recurrence = recurrence

\* the number of days of a month, from the calendar
LastDayOfMonth(y, m) ==
    IF m \in {1, 3, 5, 7, 8, 10, 12} THEN 31
    ELSE IF m \in {4, 6, 9, 11} THEN 30
    ELSE IF y \in {2024, 2028} THEN 29 ELSE 28

\* C13: for monthly, calculate_next_occurrence gives the same day of the next
\* month (January of the next year after December), clamped to the last day of
\* that month, at the same time of day: 2026-01-31 gives 2026-02-28.
C13_MonthlyClamped ==
    Calculated("monthly") =>
        LET from == last.last_completion
            y == IF from[2] = 12 THEN from[1] + 1 ELSE from[1]
            m == IF from[2] = 12 THEN 1 ELSE from[2] + 1
            last_day == LastDayOfMonth(y, m)
        IN /\ last.result = <<y, m, IF from[3] <= last_day THEN from[3] ELSE last_day, from[4]>>
           /\ (from[1] = 2026 /\ from[2] = 1 /\ from[3] = 31)
                 => last.result = <<2026, 2, 28, from[4]>>

\* C13 witness: the call from 2026-01-31 23h was clamped to 2026-02-28 23h
C13_Witness ==
    /\ Calculated("monthly")
    /\ last.last_completion = <<2026, 1, 31, 23>>
    /\ last.result = <<2026, 2, 28, 23>>

\* C14: for custom with the rule every_weekday, calculate_next_occurrence gives
\* the earliest date after from that falls on Monday to Friday: the following
\* Monday from a Friday, Saturday or Sunday, the next day otherwise.
C14_NextWeekday ==
    (Calculated("custom") /\ last.recurrence_rule = "every_weekday") =>
        LET from == last.last_completion
            k == CASE Weekday(from) = 4 -> 3
                   [] Weekday(from) = 5 -> 2
                   [] OTHER -> 1
        IN /\ last.result = AddDays(from, k)
           /\ Weekday(last.result) \in 0..4
           /\ \A j \in 1..(k - 1) : Weekday(AddDays(from, j)) \in {5, 6}
           /\ Weekday(from) \in {4, 5, 6} => Weekday(last.result) = 0
           /\ (from[1] = 2026 /\ from[2] = 1 /\ from[3] = 30)
                 => last.result = <<2026, 2, 2, from[4]>>
           /\ (from[1] = 2024 /\ from[2] = 2 /\ from[3] = 29)
                 => last.result = <<2024, 3, 1, from[4]>>

\* C14 witness: the call from Friday 2026-01-30 gave Monday 2026-02-02
C14_Witness ==
    /\ Calculated("custom") /\ last.recurrence_rule = "every_weekday"
    /\ last.last_completion = <<2026, 1, 30, 0>>
    /\ last.result = <<2026, 2, 2, 0>>

\* C15: for custom with a rule every_N_days, which the validator accepts,
\* calculate_next_occurrence gives from + N days, for every N >= 1.
C15_EveryNDays ==
    \A n \in 1..MaxN :
        (Calculated("custom") /\ last.recurrence_rule = EveryNDaysRule(n)) =>
            /\ last.valid
            /\ last.result = AddDays(last.last_completion, n)

\* C16: the task created by a projection has the owner, title, description,
\* priority, tags, recurrence and recurrence_rule of the completed task, is not
\* completed and has no next_occurrence; the completed task is left as it was.
C16_ProjectionCopiesSource ==
    Projected =>
        /\ ProjectedTask.user_id = last.req.user_id
        /\ ProjectedTask.title = last.req.title
        /\ ProjectedTask.description = last.req.description
        /\ ProjectedTask.priority = last.req.priority
        /\ ProjectedTask.tags = last.req.tags
        /\ ProjectedTask.recurrence = last.req.recurrence
        /\ ProjectedTask.recurrence_rule = last.req.recurrence_rule
        /\ ~ProjectedTask.completed
        /\ ProjectedTask.next_occurrence = NoDate
        /\ ProjectedTask.id # last.task_id
        /\ Exists(tasks, last.task_id) /\ tasks[last.task_id] = last.req

\* C16 witness: a completed high-priority task with tags and a custom rule was
\* projected
C16_Witness ==
    /\ Projected
    /\ last.req.priority = "high" /\ last.req.tags = <<"work">>
    /\ last.req.recurrence_rule = "every_weekday"
    /\ last.req.completed

\* the last call addressed the id of a task that had been deleted: ids are
\* given in order, so an id below next_id that is not in the store was deleted
OnDeletedTask ==
    /\ last.op \in TargetOps
    /\ last.task_id < next_id
    /\ ~last.pre_exists

\* C17: deletion is terminal: a well-formed delete, view, update or complete of
\* a deleted task answers NOT_FOUND whatever the publish does, and the task
\* stays out of the store.
C17_DeletionTerminal ==
    (OnDeletedTask /\ last.resp.code \notin {"VALIDATION_ERROR", "UNAUTHORIZED"}) =>
        /\ last.resp.code = "NOT_FOUND"
        /\ ~Exists(tasks, last.task_id)

\* the tool operations
ToolOps == {"add_task", "list_tasks", "view_task", "update_task", "complete_task",
            "delete_task"}

\* the user_id values that are empty, missing or not a string
NoCaller == {"", "None", "<42>"}

\* C18: a tool call with an empty, missing or non-string user_id answers
\* UNAUTHORIZED and leaves the store and every topic as they were.
C18_InvalidCallerRejectedFirst ==
    [][(last'.op \in ToolOps /\ last'.user_id \in NoCaller) =>
          /\ last'.resp.code = "UNAUTHORIZED"
          /\ ~last'.wrote /\ last'.pubs = 0 /\ last'.reminders = 0
          /\ tasks' = tasks /\ next_id' = next_id
          /\ bus' = bus /\ reminders' = reminders /\ task_updates' = task_updates]_vars

\* C18 witness: an update without user_id was rejected while the task it names
\* is in the store and the publisher is in use
C18_Witness ==
    /\ last.op = "update_task" /\ last.user_id = ""
    /\ last.resp.code = "UNAUTHORIZED"
    /\ last.pre_exists /\ dapr_available

Range(seq) == {seq[i] : i \in DOMAIN seq}

\* the fields of a create or update request that are outside their domains
MalformedFields(req) ==
    {f \in {"title", "priority", "tags", "recurrence", "recurrence_rule"} :
        \/ f = "title" /\ last.op = "add_task" /\ req.title \in {"", " ", "None"}
        \/ f = "priority" /\ req.priority \notin {"high", "medium", "low", "None"}
        \/ f = "tags" /\ req.tags # <<"None">>
                      /\ (Len(req.tags) > 10 \/ "a-tag-of-twenty-one-c" \in Range(req.tags))
        \/ f = "recurrence"
              /\ req.recurrence \notin {"None", "none", "daily", "weekly", "monthly", "custom"}
        \/ f = "recurrence_rule" /\ req.recurrence = "custom"
              /\ ~validate_custom_rule(req.recurrence_rule)}

\* C19: a create or update request with a malformed field answers
\* VALIDATION_ERROR naming a malformed field, publishes nothing and writes
\* nothing, whether the publish would succeed or fail.
C19_MalformedRejected ==
    (last.op \in {"add_task", "update_task"} /\ MalformedFields(last.req) # {}) =>
        /\ last.resp.code = "VALIDATION_ERROR"
        /\ last.resp.details.field \in MalformedFields(last.req)
        /\ last.pubs = 0 /\ last.reminders = 0 /\ ~last.wrote

\* C20: over any number of sweeps of schedule_periodic_reminders, at most one
\* reminder is scheduled for a pair of task id and scheduled time.
C20_SweepSchedulesOnce ==
    \A i, j \in DOMAIN reminders :
        (/\ i # j
         /\ reminders[i].data.task_id # NoId
         /\ reminders[i].data.task_id = reminders[j].data.task_id)
            => reminders[i].data.due_date # reminders[j].data.due_date

\* the orders in which the concurrent calls can run one after the other
SerialOrders ==
    { o \in [1..MaxWorkers -> Workers] : \A i, j \in 1..MaxWorkers : o[i] = o[j] => i = j }

RECURSIVE SerialStore(_, _, _)
\* the task table after the first n calls of the order o ran alone, in turn
SerialStore(o, n, store) ==
    IF n = 0 THEN store ELSE FallbackStore(SerialStore(o, n - 1, store), workers[o[n]].m)

\* every call returned what it returns in the serial order o, and the table
\* is the one that order leaves
SerialOrderExplains(o) ==
    /\ tasks = SerialStore(o, MaxWorkers, start_store)
    /\ \A n \in 1..MaxWorkers :
          workers[o[n]].resp = FallbackResponse(SerialStore(o, n - 1, start_store),
                                                workers[o[n]].m)

AllWorkersDone == \A w \in Workers : workers[w].pc = "done"

\* C21: concurrent fallback mutations of one task are serializable: when all
\* of them have returned, the task table and every result are those of some
\* serial order of the calls, and no call committed on a task that another
\* call changed or deleted between its read and its write.
C21_FallbackAtomic ==
    AllWorkersDone =>
        /\ \E o \in SerialOrders : SerialOrderExplains(o)
        /\ \A w \in Workers : ~workers[w].stale

\* C22: with several workers in retry_failed_notifications, every retry
\* performed on a notification finds its stored attempt count below the
\* ceiling of 3 and raises the stored count by one: no notification is
\* retried more often than the ceiling allows and no increment is lost.
C22_RetrySingleOwner ==
    [][\A n \in DOMAIN notifications :
          retries'[n] > retries[n] =>
              /\ notifications[n].delivery_attempts < MaxDeliveryAttempts
              /\ notifications'[n].delivery_attempts = notifications[n].delivery_attempts + 1]_vars

\* the items of a batch that send_notification can process
Processable(batch) == {i \in 1..Len(batch) : ~DueDateUnparsable(batch[i].due_date)}

\* C23: an item of a batch that fails does not abort the others: after
\* send_batch_notifications, every item whose due date can be parsed has its
\* notification stored, as if the failing items were not in the batch.
C23_BatchItemsIsolated ==
    nlast.op = "send_batch_notifications" =>
        Cardinality(DOMAIN notifications \ DOMAIN nlast.pre)
            = Cardinality(Processable(nlast.batch))

\* the due dates lie within one calendar day of each other
WithinOneDay(d, e) ==
    /\ d # NoDate
    /\ e # NoDate
    /\ (d = e \/ AddOneDay(d) = e \/ d = AddOneDay(e))

\* another task than the completed one has the owner and the title of row
\* and a due date within one day of row's
DuplicateExists(store, source_id, row) ==
    \E i \in DOMAIN store \ {source_id} :
        /\ store[i].user_id = row.user_id
        /\ store[i].title = row.title
        /\ WithinOneDay(store[i].due_date, row.due_date)

\* C24: whenever the consumer creates a projected task, no task with the same
\* owner, the same title and a due date within one day of the occurrence
\* existed before, and the duplicate check reports a duplicate exactly when
\* such a task exists.
C24_DuplicateCheckBeforeProjection ==
    [][(last'.op = "process_task_completed_event" /\ next_id' = next_id + 1) =>
          /\ ~DuplicateExists(tasks, last'.task_id, tasks'[next_id])
          /\ prevent_duplicate_creation(tasks, last'.task_id, tasks'[next_id].recurrence,
                                        tasks'[next_id].due_date)
               = ~DuplicateExists(tasks, last'.task_id, tasks'[next_id])]_vars

\* C25: the consumer accepts the reminder event that add_task published for
\* a task with a due date: processing it returns true and records the
\* notification. (Every event of the topic is such an event here.)
C25_CreateReminderAccepted ==
    nlast.op = "process_reminder_event" =>
        /\ nlast.ret = TRUE
        /\ nlast.id \in DOMAIN notifications

\* the columns that update_task never assigns
FixedColumns == {"id", "user_id", "completed", "created_at", "next_occurrence"}

\* the step is a fallback update that wrote the task
FallbackUpdated == last'.op = "update_task" /\ last'.wrote

\* C26: a fallback update changes only the supplied fields and updated_at of
\* the addressed task: a field passed as None keeps its stored value, id,
\* user_id, completed, created_at and next_occurrence are not changed, and
\* every other task is unchanged.
C26_UpdateFrame ==
    [][FallbackUpdated =>
          LET req == last'.req
              old == tasks[req.task_id]
              new == tasks'[req.task_id]
          IN /\ DOMAIN tasks' = DOMAIN tasks
             /\ \A i \in DOMAIN tasks \ {req.task_id} : tasks'[i] = tasks[i]
             /\ \A c \in FixedColumns : new[c] = old[c]
             /\ req.title = None => new.title = old.title
             /\ req.description = None => new.description = old.description
             /\ req.priority = None => new.priority = old.priority
             /\ req.due_date = NoDate => new.due_date = old.due_date
             /\ req.tags = NoTags => new.tags = old.tags
             /\ req.recurrence = None => new.recurrence = old.recurrence
             /\ req.recurrence_rule = None => new.recurrence_rule = old.recurrence_rule]_vars

\* a fallback update that supplied the priority only wrote task 1 while
\* another task was in the store
C26_Witness ==
    /\ last.op = "update_task"
    /\ last.wrote
    /\ last.req.title = None
    /\ last.req.priority = "high"
    /\ Exists(tasks, 2)
    /\ tasks[1].priority = "high"
    /\ tasks[1].title \in {"Pay rent", "Rent"}

\* the step is a call of the API-side process_reminder_event
ApiReminderProcessed == last'.op = "process_reminder_event"

\* C27: the API-side process_reminder_event sends a notification only for
\* a task that exists under the event's user and is not completed; for a
\* missing task it returns false and for a completed task it returns true,
\* both without sending.
C27_ReminderOnlyForOpenOwnedTask ==
    [][ApiReminderProcessed =>
          LET ev == last'.req
              found == Exists(tasks, ev.task_id) /\ tasks[ev.task_id].user_id = ev.user_id
          IN /\ api_sent' # api_sent => (found /\ ~tasks[ev.task_id].completed)
             /\ ~found => (api_sent' = api_sent /\ last'.resp = Returned(FALSE))
             /\ (found /\ tasks[ev.task_id].completed) =>
                    (api_sent' = api_sent /\ last'.resp = Returned(TRUE))]_vars

\* a reminder for the completed task 1 of user A was processed after one for
\* an open task had been sent
C27_Witness ==
    /\ last.op = "process_reminder_event"
    /\ last.task_id = 1
    /\ last.user_id = "A"
    /\ Exists(tasks, 1)
    /\ tasks[1].completed
    /\ last.resp = Returned(TRUE)
    /\ Len(api_sent) = 1

\* C28: retrying terminates: of the calls of retry_failed_notifications that
\* follow one another with no failure recorded in between, the third and
\* every later one return 0, and a call that returns 0 changes nothing.
C28_RetryTerminates ==
    nlast.op = "retry_failed_notifications" =>
        /\ nlast.streak >= MaxDeliveryAttempts => nlast.ret = 0
        /\ nlast.ret = 0 => notifications = nlast.pre

\* the third call in a row found failed notifications and retried none
C28_Witness ==
    /\ nlast.op = "retry_failed_notifications"
    /\ nlast.streak = MaxDeliveryAttempts
    /\ nlast.ret = 0
    /\ Failed(notifications) # {}

\* the message types that carry a task event
TaskMessageTypes ==
    {"task_created", "task_update", "task_completed", "tasks_listed", "task_general_update"}

\* C29: a task event of a user reaches only connections registered under
\* that user: every task message in the inbox of a connection carries the
\* user the connection connected as.
C29_TaskEventsReachOwnerOnly ==
    \A c \in Conns : \A m \in inbox[c] :
        m.type \in TaskMessageTypes => registered[c] = m.user_id

\* a connection of A got a task event of A while a connection of B was
\* registered and open
C29_Witness ==
    \E c, d \in Conns :
        /\ registered[c] = "A"
        /\ [type |-> "task_created", user_id |-> "A"] \in inbox[c]
        /\ registered[d] = "B"
        /\ d \in active_connections \ closed
        /\ d \in ConnectionsOf(user_connections, "B")

\* C30: the registry is consistent: a connection listed under a user is
\* active, an active connection is listed under exactly one user, and no
\* user has an empty entry.
C30_RegistryConsistent ==
    /\ \A u \in DOMAIN user_connections : user_connections[u] \subseteq active_connections
    /\ \A c \in active_connections :
          Cardinality({u \in DOMAIN user_connections : c \in user_connections[u]}) = 1
    /\ \A u \in DOMAIN user_connections : user_connections[u] # {}

====
